---- MODULE Spec2Model ----
(***************************************************************************)
(* A model of the policy / validation core of the F.A.M. application:      *)
(* Driver.record_transaction, Driver.validate_transaction_record,          *)
(* User.update_lock_status and User.check_and_issue_user_warnings, over    *)
(* the Budget, BankAccount and TransactionManager objects of one User, and *)
(* TransactionManager.calc_total_spent as Driver.view_bank_account_details *)
(* prints it.  A session starts from the User that                         *)
(* User.generate_new_user builds from the registration input, the manager  *)
(* TransactionManager.generate_tx_mgr returns for the user type included.  *)
(*                                                                         *)
(* Amounts are whole currency units.  The thresholds of the three          *)
(* TransactionManager subclasses (1.2, 0.9, 0.75, 0.5, 1) are kept as      *)
(* fractions num/den and every comparison of the code is done by cross     *)
(* multiplication; for whole amounts of this size the float comparisons    *)
(* of the code (a correctly rounded quotient or product against the        *)
(* literal) give the same answers.                                         *)
(***************************************************************************)
EXTENDS Integers, Sequences, FiniteSets, TLC

VARIABLES
    tx_manager,           \* User.tx_manager: the policy attributes of the manager
    budget_dict,          \* BudgetManager.budget_dict: BudgetCategory -> Budget
    account,              \* User.account: the BankAccount
    transaction_records,  \* TransactionManager.transaction_records: tx number -> Transaction
    current_tx_number,    \* TransactionManager.current_tx_number
    last,                 \* the last operation run: its inputs, where it ended, what it printed
    crashed               \* TRUE once an exception has left the main loop

vars == <<tx_manager, budget_dict, account, transaction_records,
          current_tx_number, last, crashed>>

-----------------------------------------------------------------------------
(* Bounds of the model *)

\* the largest number of transactions the ledger holds in the model
MaxTx == 4

\* the bank balances a user registers with
StartingBalances == {20, 26}

\* the budget totals a user registers with, per category
BudgetTotals == {0, 5}

\* the transaction amounts entered (prompt_record_tx refuses negative ones)
Amounts == {0, 5, 6}

\* the amounts validation is asked about: those entered, and one above every
\* ceiling of a budget of 5
ProposedAmounts == Amounts \cup {7}

\* the budget category numbers entered for transactions
TxCategories == {1, 3}

-----------------------------------------------------------------------------
(* Values *)

\* Python's None for an optional threshold, and a set threshold num/den
None == [none |-> TRUE, num |-> 0, den |-> 1]

Frac(n, d) == [none |-> FALSE, num |-> n, den |-> d]

\* Python truthiness of an optional number: None and 0 are falsy
Truthy(x) == ~x.none /\ x.num # 0

\* the BudgetCategory enum
BudgetCategory ==
    {"GAMES_AND_ENTERTAINMENT", "CLOTHING_AND_ACCESSORIES", "EATING_OUT",
     "MISCELLANEOUS"}

\* BudgetManager.category_mapping: the int entered -> the enum
category_mapping ==
    [i \in 1..4 |->
        CASE i = 1 -> "GAMES_AND_ENTERTAINMENT"
          [] i = 2 -> "CLOTHING_AND_ACCESSORIES"
          [] i = 3 -> "EATING_OUT"
          [] i = 4 -> "MISCELLANEOUS"]

\* every budget category number a transaction can carry
AllCategories == DOMAIN category_mapping

\* list(budget_dict.keys()): the insertion order of generate_budget_mgr
budgets_keys_list ==
    <<"GAMES_AND_ENTERTAINMENT", "CLOTHING_AND_ACCESSORIES", "EATING_OUT",
      "MISCELLANEOUS">>

\* Budget.__init__
Budget(amount_total) ==
    [amount_total |-> amount_total, amount_spent |-> 0, locked_status |-> FALSE]

\* BankAccount.__init__ (locked_status defaults to False in Account.__init__)
BankAccount(starting_balance) ==
    [starting_balance |-> starting_balance,
     current_balance |-> starting_balance,
     locked_status |-> FALSE]

\* Transaction.__init__ (the fields the core reads)
Transaction(tx_amount, budget_category) ==
    [tx_amount |-> tx_amount, budget_category |-> budget_category]

\* a variant of the Angel manager that has the Rebel's lock attributes
AngelWithLockAttributes ==
    [user_type |-> 1, lock_threshold |-> Frac(1, 1),
     warning_threshold |-> Frac(9, 10),
     max_locked_budgets |-> Frac(2, 1), persistent_warning |-> FALSE]

\* the three concrete TransactionManager classes
AngelTransactionManager ==
    [user_type |-> 1, lock_threshold |-> None, warning_threshold |-> Frac(9, 10),
     max_locked_budgets |-> None, persistent_warning |-> FALSE]

\* a Troublemaker that locks the account at two locked budgets
TroublemakerWithMaxLockedBudgets ==
    [user_type |-> 2, lock_threshold |-> Frac(6, 5),
     warning_threshold |-> Frac(3, 4),
     max_locked_budgets |-> Frac(2, 1), persistent_warning |-> FALSE]

TroublemakerTransactionManager ==
    [user_type |-> 2, lock_threshold |-> Frac(6, 5),
     warning_threshold |-> Frac(3, 4),
     max_locked_budgets |-> None, persistent_warning |-> FALSE]

\* a Rebel whose account locks at three locked budgets
RebelWithThreeLockedBudgets ==
    [user_type |-> 3, lock_threshold |-> Frac(1, 1),
     warning_threshold |-> Frac(1, 2),
     max_locked_budgets |-> Frac(3, 1), persistent_warning |-> TRUE]

RebelTransactionManager ==
    [user_type |-> 3, lock_threshold |-> Frac(1, 1),
     warning_threshold |-> Frac(1, 2),
     max_locked_budgets |-> Frac(2, 1), persistent_warning |-> TRUE]

\* TransactionManager.generate_tx_mgr: tx_mgr stays None for a user type
\* that is none of 1, 2, 3
generate_tx_mgr(user_type) ==
    CASE user_type = 1 -> AngelTransactionManager
      [] user_type = 2 -> TroublemakerTransactionManager
      [] user_type = 3 -> RebelTransactionManager
      [] OTHER -> None

-----------------------------------------------------------------------------
(* Comparisons of the code, on fractions *)

\* amount > total * threshold
ExceedsScaled(amount, total, threshold) ==
    amount * threshold.den > total * threshold.num

\* a variant with >= in place of >
RatioReaches(spent, total, threshold) ==
    IF total > 0
    THEN spent * threshold.den >= threshold.num * total
    ELSE spent * threshold.den <= threshold.num * total

\* spent / total > threshold, for total # 0 (the quotient's sign follows total)
RatioExceeds(spent, total, threshold) ==
    IF total > 0
    THEN spent * threshold.den > threshold.num * total
    ELSE spent * threshold.den < threshold.num * total

\* the reasons validate_transaction_record appends to error_msg
AccountLockedMsg == "account locked out"

BudgetLockedMsg == "budget category locked"

ExceededBudgetMsg == "exceeds allowable budget available for category"

InsufficientBalanceMsg == "insufficient bank balance"

\* the signals the core prints
Signal(kind, category, severity) ==
    [kind |-> kind, category |-> category, severity |-> severity]

\* BankAccount.issue_locked_warning
issue_locked_warning == Signal("account_locked_warning", "", "")

\* BudgetManager.issue_locked_status
issue_locked_status(budget_str) == Signal("locked_status", budget_str, "")

\* issue_warning of the three managers (the same text in each)
issue_warning(mgr, budget_str) == Signal("warning", budget_str, "")

\* a variant in which the Rebel manager prints the plain notification too
issue_notification_plain(mgr, budget_str) ==
    Signal("notification", budget_str, "normal")

\* issue_notification: the Rebel manager frames it with banner lines
issue_notification(mgr, budget_str) ==
    Signal("notification", budget_str,
           IF mgr.user_type = 3 THEN "emphasized" ELSE "normal")

-----------------------------------------------------------------------------
(* Driver.validate_transaction_record *)

\* lines 223-250: validated_tx and error_msg as the four if statements leave
\* them, c1..c4 being their conditions
accumulate_checks(c1, c2, c3, c4) ==
    LET v1 == IF c1 THEN FALSE ELSE TRUE
        e1 == IF c1 THEN <<AccountLockedMsg>> ELSE <<>>
        v2 == IF c2 THEN FALSE ELSE v1
        e2 == IF c2 THEN Append(e1, BudgetLockedMsg) ELSE e1
        v3 == IF c3 THEN FALSE ELSE v2
        e3 == IF c3 THEN Append(e2, ExceededBudgetMsg) ELSE e2
        v4 == IF c4 THEN FALSE ELSE v3
        e4 == IF c4 THEN Append(e3, InsufficientBalanceMsg) ELSE e3
    IN  [validated_tx |-> v4, error_msg |-> e4]

\* the condition of the third if statement (lines 239-240)
exceeds_allowable_budget(mgr, new_tx, budget) ==
    LET budget_threshold == mgr.lock_threshold
    IN  /\ Truthy(budget_threshold)
        /\ ExceedsScaled(new_tx.tx_amount, budget.amount_total,
                         budget_threshold)

\* a variant that stops at the first failing check (an if / elif chain)
validate_first_failure_only(mgr, acct, new_tx, budget) ==
    IF acct.locked_status
    THEN [validated_tx |-> FALSE, error_msg |-> <<AccountLockedMsg>>]
    ELSE IF budget.locked_status
    THEN [validated_tx |-> FALSE, error_msg |-> <<BudgetLockedMsg>>]
    ELSE IF exceeds_allowable_budget(mgr, new_tx, budget)
    THEN [validated_tx |-> FALSE, error_msg |-> <<ExceededBudgetMsg>>]
    ELSE IF new_tx.tx_amount > acct.current_balance
    THEN [validated_tx |-> FALSE, error_msg |-> <<InsufficientBalanceMsg>>]
    ELSE [validated_tx |-> TRUE, error_msg |-> <<>>]

\* a variant without the check of the account's lock
validate_without_account_lock(mgr, acct, new_tx, budget) ==
    accumulate_checks(FALSE,
                      budget.locked_status,
                      exceeds_allowable_budget(mgr, new_tx, budget),
                      new_tx.tx_amount > acct.current_balance)

\* a variant without the check of the budget's lock
validate_without_budget_lock(mgr, acct, new_tx, budget) ==
    accumulate_checks(acct.locked_status,
                      FALSE,
                      exceeds_allowable_budget(mgr, new_tx, budget),
                      new_tx.tx_amount > acct.current_balance)

\* a variant that takes an overspent budget for a locked one
validate_overspent_as_locked(mgr, acct, new_tx, budget) ==
    accumulate_checks(acct.locked_status,
                      budget.amount_spent > budget.amount_total,
                      exceeds_allowable_budget(mgr, new_tx, budget),
                      new_tx.tx_amount > acct.current_balance)

\* the historical variant of the third check: against what is left of the
\* budget, not against its scaled total
validate_against_available(mgr, acct, new_tx, budget) ==
    accumulate_checks(acct.locked_status,
                      budget.locked_status,
                      /\ Truthy(mgr.lock_threshold)
                      /\ new_tx.tx_amount
                            > budget.amount_total - budget.amount_spent,
                      new_tx.tx_amount > acct.current_balance)

\* a variant without the check against the balance
validate_without_balance_check(mgr, acct, new_tx, budget) ==
    accumulate_checks(acct.locked_status,
                      budget.locked_status,
                      exceeds_allowable_budget(mgr, new_tx, budget),
                      FALSE)

\* a variant that refuses an amount equal to the balance
validate_balance_not_below(mgr, acct, new_tx, budget) ==
    accumulate_checks(acct.locked_status,
                      budget.locked_status,
                      exceeds_allowable_budget(mgr, new_tx, budget),
                      new_tx.tx_amount >= acct.current_balance)

validate_transaction_record(mgr, acct, new_tx, budget) ==
    accumulate_checks(acct.locked_status,
                      budget.locked_status,
                      exceeds_allowable_budget(mgr, new_tx, budget),
                      new_tx.tx_amount > acct.current_balance)

-----------------------------------------------------------------------------
(* Budget, BankAccount and TransactionManager methods *)

\* a variant that flips the flag instead of setting it
lock_budget_toggles(budget) == [budget EXCEPT !.locked_status = ~@]

\* Budget.lock_budget
lock_budget(budget) == [budget EXCEPT !.locked_status = TRUE]

\* a variant that stores the amount instead of adding it
budget_add_amount_spent_overwrites(budget, amount_spent) ==
    [budget EXCEPT !.amount_spent = amount_spent]

\* Budget.add_amount_spent
budget_add_amount_spent(budget, amount_spent) ==
    [budget EXCEPT !.amount_spent = @ + amount_spent]

\* BankAccount.add_amount_spent
account_add_amount_spent(acct, amount_spent) ==
    [acct EXCEPT !.current_balance = @ - amount_spent]

\* a variant that does not advance the number
add_transaction_keeps_number(records, number, new_tx) ==
    [transaction_records |->
        [k \in (DOMAIN records) \cup {number} |->
            IF k = number THEN new_tx ELSE records[k]],
     current_tx_number |-> number]

\* TransactionManager.add_transaction: the records and the next number
add_transaction(records, number, new_tx) ==
    [transaction_records |->
        [k \in (DOMAIN records) \cup {number} |->
            IF k = number THEN new_tx ELSE records[k]],
     current_tx_number |-> number + 1]

\* the keys K of a dict in the order of their insertion: add_transaction
\* inserts them in increasing order
RECURSIVE keys_in_order(_)
keys_in_order(K) ==
    IF K = {}
    THEN <<>>
    ELSE LET m == CHOOSE x \in K : \A y \in K : x <= y
         IN  <<m>> \o keys_in_order(K \ {m})

\* list(self.tx_dict.keys())
tx_keys_list(tx_dict) == keys_in_order(DOMAIN tx_dict)

\* a variant that stops one element early
iterator_next_stops_early(tx_dict, curr_index) ==
    LET keys == tx_keys_list(tx_dict)
    IN  IF curr_index + 1 >= Len(keys) \/ Len(keys) = 0
        THEN [stop |-> TRUE, next_tx |-> Transaction(0, 0),
              curr_index |-> curr_index]
        ELSE [stop |-> FALSE, next_tx |-> tx_dict[keys[curr_index + 1]],
              curr_index |-> curr_index + 1]

\* TransactionManagerIterator.__next__ (curr_index counts from 0; sequences
\* of the model count from 1); stop is the StopIteration
iterator_next(tx_dict, curr_index) ==
    LET keys == tx_keys_list(tx_dict)
    IN  IF curr_index = Len(keys) \/ Len(keys) = 0
        THEN [stop |-> TRUE, next_tx |-> Transaction(0, 0),
              curr_index |-> curr_index]
        ELSE [stop |-> FALSE, next_tx |-> tx_dict[keys[curr_index + 1]],
              curr_index |-> curr_index + 1]

\* the for loop of calc_total_spent, from the iterator's curr_index on
RECURSIVE calc_total_loop(_, _, _)
calc_total_loop(tx_dict, curr_index, total_spent) ==
    LET it == iterator_next(tx_dict, curr_index)
    IN  IF it.stop
        THEN total_spent
        ELSE calc_total_loop(tx_dict, it.curr_index,
                             total_spent + it.next_tx.tx_amount)

\* TransactionManager.calc_total_spent
calc_total_spent(tx_dict) == calc_total_loop(tx_dict, 0, 0)

-----------------------------------------------------------------------------
(* User.update_lock_status *)

\* a variant that compares the amount spent, not its ratio to the total
RECURSIVE update_lock_loop_compares_amount(_, _, _, _)
update_lock_loop_compares_amount(mgr, bd, i, num_categories_locked) ==
    IF i > Len(budgets_keys_list)
    THEN [budget_dict |-> bd, num_categories_locked |-> num_categories_locked,
          raised |-> FALSE]
    ELSE LET key == budgets_keys_list[i]
             budget == bd[key]
             after ==
                 IF Truthy(mgr.lock_threshold)
                    /\ RatioExceeds(budget.amount_spent, 1,
                                    mgr.lock_threshold)
                 THEN lock_budget(budget)
                 ELSE budget
         IN  update_lock_loop_compares_amount(
                 mgr, [bd EXCEPT ![key] = after], i + 1,
                 IF after.locked_status
                 THEN num_categories_locked + 1
                 ELSE num_categories_locked)

\* a variant that counts a budget's lock before it locks the budget
RECURSIVE update_lock_loop_counts_first(_, _, _, _)
update_lock_loop_counts_first(mgr, bd, i, num_categories_locked) ==
    IF i > Len(budgets_keys_list)
    THEN [budget_dict |-> bd, num_categories_locked |-> num_categories_locked,
          raised |-> FALSE]
    ELSE LET key == budgets_keys_list[i]
             budget == bd[key]
         IN  IF budget.amount_total = 0
             THEN [budget_dict |-> bd,
                   num_categories_locked |-> num_categories_locked,
                   raised |-> TRUE]
             ELSE LET after ==
                          IF Truthy(mgr.lock_threshold)
                             /\ RatioExceeds(budget.amount_spent,
                                             budget.amount_total,
                                             mgr.lock_threshold)
                          THEN lock_budget(budget)
                          ELSE budget
                  IN  update_lock_loop_counts_first(
                          mgr, [bd EXCEPT ![key] = after], i + 1,
                          IF budget.locked_status
                          THEN num_categories_locked + 1
                          ELSE num_categories_locked)

\* a variant that, once it has locked or counted one budget, locks every
\* budget after it
RECURSIVE update_lock_loop_locks_rest(_, _, _, _)
update_lock_loop_locks_rest(mgr, bd, i, num_categories_locked) ==
    IF i > Len(budgets_keys_list)
    THEN [budget_dict |-> bd, num_categories_locked |-> num_categories_locked,
          raised |-> FALSE]
    ELSE LET key == budgets_keys_list[i]
             budget == bd[key]
         IN  IF budget.amount_total = 0
             THEN [budget_dict |-> bd,
                   num_categories_locked |-> num_categories_locked,
                   raised |-> TRUE]
             ELSE LET after ==
                          IF \/ num_categories_locked > 0
                             \/ /\ Truthy(mgr.lock_threshold)
                                /\ RatioExceeds(budget.amount_spent,
                                                budget.amount_total,
                                                mgr.lock_threshold)
                          THEN lock_budget(budget)
                          ELSE budget
                  IN  update_lock_loop_locks_rest(
                          mgr, [bd EXCEPT ![key] = after], i + 1,
                          IF after.locked_status
                          THEN num_categories_locked + 1
                          ELSE num_categories_locked)

\* the for loop of update_lock_status from the i-th budget on; raised is the
\* ZeroDivisionError of amount_spent / amount_total
RECURSIVE update_lock_loop(_, _, _, _)
update_lock_loop(mgr, bd, i, num_categories_locked) ==
    IF i > Len(budgets_keys_list)
    THEN [budget_dict |-> bd, num_categories_locked |-> num_categories_locked,
          raised |-> FALSE]
    ELSE LET key == budgets_keys_list[i]
             budget == bd[key]
         IN  IF budget.amount_total = 0
             THEN [budget_dict |-> bd,
                   num_categories_locked |-> num_categories_locked,
                   raised |-> TRUE]
             ELSE LET after ==
                          IF Truthy(mgr.lock_threshold)
                             /\ RatioExceeds(budget.amount_spent,
                                             budget.amount_total,
                                             mgr.lock_threshold)
                          THEN lock_budget(budget)
                          ELSE budget
                  IN  update_lock_loop(
                          mgr, [bd EXCEPT ![key] = after], i + 1,
                          IF after.locked_status
                          THEN num_categories_locked + 1
                          ELSE num_categories_locked)

\* a variant with > in place of >=
update_account_lock_status_above(mgr, acct, num_categories_locked) ==
    LET max_locked_budgets == mgr.max_locked_budgets
    IN  IF Truthy(max_locked_budgets)
           /\ num_categories_locked * max_locked_budgets.den
                > max_locked_budgets.num
        THEN [account |-> [acct EXCEPT !.locked_status = TRUE],
              signals |-> <<issue_locked_warning>>]
        ELSE [account |-> acct, signals |-> <<>>]

\* User._update_account_lock_status
update_account_lock_status(mgr, acct, num_categories_locked) ==
    LET max_locked_budgets == mgr.max_locked_budgets
    IN  IF Truthy(max_locked_budgets)
           /\ num_categories_locked * max_locked_budgets.den
                >= max_locked_budgets.num
        THEN [account |-> [acct EXCEPT !.locked_status = TRUE],
              signals |-> <<issue_locked_warning>>]
        ELSE [account |-> acct, signals |-> <<>>]

update_lock_status(mgr, bd, acct) ==
    LET loop == update_lock_loop(mgr, bd, 1, 0)
        upd  == update_account_lock_status(mgr, acct,
                                           loop.num_categories_locked)
    IN  IF loop.raised
        THEN [budget_dict |-> loop.budget_dict, account |-> acct,
              signals |-> <<>>, raised |-> TRUE]
        ELSE [budget_dict |-> loop.budget_dict, account |-> upd.account,
              signals |-> upd.signals, raised |-> FALSE]

-----------------------------------------------------------------------------
(* User.check_and_issue_user_warnings *)

\* a variant whose loop ends after the first budget
persistent_scan_first_only(mgr, bd) ==
    LET first == bd[budgets_keys_list[1]]
    IN  [raised |-> first.amount_total = 0,
         issue_warning |->
            /\ first.amount_total # 0
            /\ RatioExceeds(first.amount_spent, first.amount_total,
                            mgr.warning_threshold)]

\* the persistent_warning loop: raised when a budget's total is 0, else
\* whether some budget's ratio exceeds the warning threshold
persistent_scan(mgr, bd) ==
    [raised |-> \E k \in DOMAIN bd : bd[k].amount_total = 0,
     issue_warning |->
        \E k \in DOMAIN bd :
            /\ bd[k].amount_total # 0
            /\ RatioExceeds(bd[k].amount_spent, bd[k].amount_total,
                            mgr.warning_threshold)]

\* a variant that compares the ratio with 1
quotient_above_one(spent, total, threshold) ==
    RatioExceeds(spent, total, Frac(1, 1))

\* "if current_budget_threshold / warning_threshold:" is the truth value of a
\* quotient: it is true exactly when the ratio is not zero
quotient_truthy(spent, total, threshold) == spent # 0

\* a variant with >= in place of >
notification_due_at_total(current_budget) ==
    RatioReaches(current_budget.amount_spent, current_budget.amount_total,
                 Frac(1, 1))

\* "if current_budget_threshold > 1:"
notification_due(current_budget) ==
    RatioExceeds(current_budget.amount_spent, current_budget.amount_total,
                 Frac(1, 1))

check_and_issue_user_warnings(mgr, bd, key) ==
    LET current_budget == bd[key]
        budget_category_str == key
        scan == persistent_scan(mgr, bd)
        issue_warning_flag ==
            \/ mgr.persistent_warning /\ scan.issue_warning
            \/ quotient_truthy(current_budget.amount_spent,
                               current_budget.amount_total,
                               mgr.warning_threshold)
        issue_notification_flag == notification_due(current_budget)
        issue_locked_status_flag == current_budget.locked_status
        s1 == IF issue_warning_flag
              THEN <<issue_warning(mgr, budget_category_str)>> ELSE <<>>
        s2 == IF issue_notification_flag
              THEN Append(s1, issue_notification(mgr, budget_category_str))
              ELSE s1
        s3 == IF issue_locked_status_flag
              THEN Append(s2, issue_locked_status(budget_category_str))
              ELSE s2
    IN  IF \/ current_budget.amount_total = 0
           \/ mgr.persistent_warning /\ scan.raised
        THEN [signals |-> <<>>, raised |-> TRUE]
        ELSE [signals |-> s3, raised |-> FALSE]

-----------------------------------------------------------------------------
(* Driver.record_transaction *)

\* the objects a handler works on
State(bd, acct, records, number) ==
    [budget_dict |-> bd, account |-> acct, transaction_records |-> records,
     current_tx_number |-> number]

\* what a handler leaves: the objects, how it ended, what it printed
Result(state, outcome, error_msg, signals) ==
    [state |-> state, outcome |-> outcome, error_msg |-> error_msg,
     signals |-> signals]

\* a variant in which a refused transaction still takes a transaction number
record_rejected_takes_number(s, res) ==
    Result([s EXCEPT !.current_tx_number = @ + 1], "rejected", res.error_msg,
           <<>>)

\* a variant that prints the account-locked warning again when it refuses a
\* transaction of a locked account
record_rejected_warns_locked(s, res) ==
    Result(s, "rejected", res.error_msg,
           IF s.account.locked_status
           THEN <<issue_locked_warning>>
           ELSE <<>>)

\* lines 149-154: the transaction is not validated; print the reasons and return
record_rejected(s, res) == Result(s, "rejected", res.error_msg, <<>>)

\* a variant that issues the warnings before it re-evaluates the locks
record_accepted_warns_first(mgr, s, new_tx) ==
    LET budget_category == category_mapping[new_tx.budget_category]
        bd1   == [s.budget_dict EXCEPT
                    ![budget_category] =
                        budget_add_amount_spent(@, new_tx.tx_amount)]
        acct1 == account_add_amount_spent(s.account, new_tx.tx_amount)
        added == add_transaction(s.transaction_records, s.current_tx_number,
                                 new_tx)
        warn  == check_and_issue_user_warnings(mgr, bd1, budget_category)
        locks == update_lock_status(mgr, bd1, acct1)
        s1    == State(locks.budget_dict, locks.account,
                       added.transaction_records, added.current_tx_number)
    IN  IF warn.raised
        THEN Result(State(bd1, acct1, added.transaction_records,
                          added.current_tx_number),
                    "ZeroDivisionError", <<>>, <<>>)
        ELSE IF locks.raised
        THEN Result(s1, "ZeroDivisionError", <<>>, warn.signals)
        ELSE Result(s1, "recorded", <<>>, warn.signals \o locks.signals)

\* a variant that re-evaluates the locks before it applies the amounts
record_accepted_locks_first(mgr, s, new_tx) ==
    LET budget_category == category_mapping[new_tx.budget_category]
        locks == update_lock_status(mgr, s.budget_dict, s.account)
        bd1   == [locks.budget_dict EXCEPT
                    ![budget_category] =
                        budget_add_amount_spent(@, new_tx.tx_amount)]
        acct1 == account_add_amount_spent(locks.account, new_tx.tx_amount)
        added == add_transaction(s.transaction_records, s.current_tx_number,
                                 new_tx)
        warn  == check_and_issue_user_warnings(mgr, bd1, budget_category)
        s1    == State(bd1, acct1, added.transaction_records,
                       added.current_tx_number)
    IN  IF locks.raised
        THEN Result(s1, "ZeroDivisionError", <<>>, <<>>)
        ELSE IF warn.raised
        THEN Result(s1, "ZeroDivisionError", <<>>, locks.signals)
        ELSE Result(s1, "recorded", <<>>, locks.signals \o warn.signals)

\* lines 156-167: the transaction is validated
record_accepted(mgr, s, new_tx) ==
    LET budget_category == category_mapping[new_tx.budget_category]
        \* line 157
        bd1   == [s.budget_dict EXCEPT
                    ![budget_category] =
                        budget_add_amount_spent(@, new_tx.tx_amount)]
        \* line 158
        acct1 == account_add_amount_spent(s.account, new_tx.tx_amount)
        \* line 159
        added == add_transaction(s.transaction_records, s.current_tx_number,
                                 new_tx)
        \* line 160
        locks == update_lock_status(mgr, bd1, acct1)
        \* line 167
        warn  == check_and_issue_user_warnings(mgr, locks.budget_dict,
                                               budget_category)
        s1    == State(locks.budget_dict, locks.account,
                       added.transaction_records, added.current_tx_number)
    IN  IF locks.raised
        THEN Result(s1, "ZeroDivisionError", <<>>, <<>>)
        ELSE IF warn.raised
        THEN Result(s1, "ZeroDivisionError", <<>>, locks.signals)
        ELSE Result(s1, "recorded", <<>>, locks.signals \o warn.signals)

\* lines 139-167
record_transaction(mgr, s, new_tx) ==
    LET budget_category == category_mapping[new_tx.budget_category]
        budget == s.budget_dict[budget_category]
        res    == validate_transaction_record(mgr, s.account, new_tx, budget)
    IN  IF ~res.validated_tx
        THEN record_rejected(s, res)
        ELSE record_accepted(mgr, s, new_tx)

-----------------------------------------------------------------------------
(* The state machine *)

\* what an operation leaves in last
Outcome(op, tx_amount, budget_category, outcome, error_msg, signals) ==
    [op |-> op, tx_amount |-> tx_amount, budget_category |-> budget_category,
     outcome |-> outcome, error_msg |-> error_msg, signals |-> signals]

\* the objects as they are now
Current == State(budget_dict, account, transaction_records, current_tx_number)

\* User.generate_new_user, for a user of type 1..3: the state after registration
Init ==
    \E user_type \in 1..3, bank_balance \in StartingBalances,
       totals \in [BudgetCategory -> BudgetTotals] :
        /\ tx_manager = generate_tx_mgr(user_type)
        /\ budget_dict = [c \in BudgetCategory |-> Budget(totals[c])]
        /\ account = BankAccount(bank_balance)
        /\ transaction_records = <<>>
        /\ current_tx_number = 1
        /\ last = Outcome("generate_new_user", 0, 0, "returned", <<>>, <<>>)
        /\ crashed = FALSE

\* reading an attribute of a tx_manager that is None raises AttributeError
\* before the handler has changed anything (driver.py:222, user.py:142,
\* driver.py:198)
attribute_error(s) == Result(s, "AttributeError", <<>>, <<>>)

\* Driver.record_transaction, the main menu's choice 2.  An exception leaves
\* execute_main_menu and ends the program.
RecordTransactionUpTo(max_tx, tx_amount, budget_category_int) ==
    LET new_tx == Transaction(tx_amount, budget_category_int)
        r      == IF tx_manager = None
                  THEN attribute_error(Current)
                  ELSE record_transaction(tx_manager, Current, new_tx)
    IN  /\ ~crashed
        /\ r.outcome # "rejected"
              => Cardinality(DOMAIN transaction_records) < max_tx
        /\ budget_dict' = r.state.budget_dict
        /\ account' = r.state.account
        /\ transaction_records' = r.state.transaction_records
        /\ current_tx_number' = r.state.current_tx_number
        /\ crashed' = (r.outcome \in {"ZeroDivisionError", "AttributeError"})
        /\ last' = Outcome("record_transaction", tx_amount,
                           budget_category_int, r.outcome, r.error_msg,
                           r.signals)
        /\ UNCHANGED tx_manager

RecordTransaction(tx_amount, budget_category_int) ==
    RecordTransactionUpTo(MaxTx, tx_amount, budget_category_int)

\* User.update_lock_status called on its own
UpdateLockStatus ==
    LET missing == tx_manager = None
        locks   == IF missing
                   THEN [budget_dict |-> budget_dict, account |-> account,
                         signals |-> <<>>, raised |-> FALSE]
                   ELSE update_lock_status(tx_manager, budget_dict, account)
    IN  /\ ~crashed
        /\ budget_dict' = locks.budget_dict
        /\ account' = locks.account
        /\ crashed' = (missing \/ locks.raised)
        /\ last' = Outcome("update_lock_status", 0, 0,
                           IF missing THEN attribute_error(Current).outcome
                           ELSE IF locks.raised THEN "ZeroDivisionError"
                           ELSE "returned",
                           <<>>, locks.signals)
        /\ UNCHANGED <<tx_manager, transaction_records, current_tx_number>>

\* the spending summary view_bank_account_details prints
spending_summary(acct, records) ==
    [kind |-> "spending_summary",
     starting_balance |-> acct.starting_balance,
     total_spent |-> calc_total_spent(records),
     closing_balance |-> acct.current_balance]

\* Driver.view_bank_account_details, the main menu's choice 4
ViewBankAccountDetails ==
    LET missing == tx_manager = None
    IN  /\ ~crashed
        /\ crashed' = missing
        /\ last' = IF missing
                   THEN Outcome("view_bank_account_details", 0, 0,
                                attribute_error(Current).outcome, <<>>, <<>>)
                   ELSE Outcome("view_bank_account_details", 0, 0,
                                "returned", <<>>,
                                <<spending_summary(account,
                                                   transaction_records)>>)
        /\ UNCHANGED <<tx_manager, budget_dict, account, transaction_records,
                       current_tx_number>>

Next ==
    \/ \E a \in Amounts, c \in TxCategories : RecordTransaction(a, c)
    \/ UpdateLockStatus
    \/ ViewBankAccountDetails

Spec == Init /\ [][Next]_vars

\* Sessions in which record_transaction is the only operation run
NextRecordOnly ==
    \E a \in Amounts, c \in TxCategories : RecordTransaction(a, c)

SpecRecordOnly == Init /\ [][NextRecordOnly]_vars

\* the registrations with one total for all four budgets: besides 5, a total
\* of 20, of which the amounts entered are a small part
RatioBudgetTotals == {5, 20}

\* a balance that covers MaxTx transactions of the largest amount
RatioStartingBalances == {26}

\* User.generate_new_user, for these registrations
InitRatios ==
    \E user_type \in 1..3, bank_balance \in RatioStartingBalances,
       total \in RatioBudgetTotals :
        /\ tx_manager = generate_tx_mgr(user_type)
        /\ budget_dict = [c \in BudgetCategory |-> Budget(total)]
        /\ account = BankAccount(bank_balance)
        /\ transaction_records = <<>>
        /\ current_tx_number = 1
        /\ last = Outcome("generate_new_user", 0, 0, "returned", <<>>, <<>>)
        /\ crashed = FALSE

SpecRatios == InitRatios /\ [][Next]_vars

\* Sessions with transactions in all four categories, long enough to lock
\* every budget: the two policies that lock budgets, every budget's total 5
\* and transactions of 5, two of which push a budget above either threshold

\* the largest number of transactions the ledger holds in these sessions
MaxTxAllCategories == 8

LockingUserTypes == {2, 3}

AllCategoriesTotals == {5}

\* a balance that covers two transactions of 5 in each of the four budgets
AllCategoriesBalances == {40}

AllCategoriesAmounts == {5}

InitAllCategories ==
    \E user_type \in LockingUserTypes,
       bank_balance \in AllCategoriesBalances,
       total \in AllCategoriesTotals :
        /\ tx_manager = generate_tx_mgr(user_type)
        /\ budget_dict = [c \in BudgetCategory |-> Budget(total)]
        /\ account = BankAccount(bank_balance)
        /\ transaction_records = <<>>
        /\ current_tx_number = 1
        /\ last = Outcome("generate_new_user", user_type, 0, "returned",
                          <<>>, <<>>)
        /\ crashed = FALSE

NextAllCategories ==
    \/ \E a \in AllCategoriesAmounts, c \in AllCategories :
          RecordTransactionUpTo(MaxTxAllCategories, a, c)
    \/ UpdateLockStatus
    \/ ViewBankAccountDetails

SpecAllCategories == InitAllCategories /\ [][NextAllCategories]_vars

\* the user type codes entered at registration: prompt_user_registration
\* takes any text and _convert_user_data_types any integer
UserTypeCodes == 0..4

\* the budget totals entered at registration: _convert_user_data_types takes
\* any number, a negative one too
RegistrationTotals == {-5, 0, 5}

\* User.generate_new_user for any user type code, with one total for all four
\* budgets; it returns the User whatever generate_tx_mgr returned
InitRegistration ==
    \E user_type \in UserTypeCodes, bank_balance \in StartingBalances,
       total \in RegistrationTotals :
        /\ tx_manager = generate_tx_mgr(user_type)
        /\ budget_dict = [c \in BudgetCategory |-> Budget(total)]
        /\ account = BankAccount(bank_balance)
        /\ transaction_records = <<>>
        /\ current_tx_number = 1
        /\ last = Outcome("generate_new_user", user_type, 0, "returned",
                          <<>>, <<>>)
        /\ crashed = FALSE

SpecRegistration == InitRegistration /\ [][Next]_vars

-----------------------------------------------------------------------------
(* Validation: what the specification says of each check *)

\* the i-th check of the specification fails for amount a in category c
CheckFails(i, a, c) ==
    LET budget == budget_dict[category_mapping[c]]
        L      == tx_manager.lock_threshold
    IN  CASE i = 1 -> account.locked_status
          [] i = 2 -> budget.locked_status
          [] i = 3 -> ~L.none /\ a * L.den > budget.amount_total * L.num
          [] i = 4 -> a > account.current_balance

ReasonOf ==
    <<AccountLockedMsg, BudgetLockedMsg, ExceededBudgetMsg,
      InsufficientBalanceMsg>>

\* one reason per failing check, in the order of the checks
ExpectedReasons(a, c) ==
    LET Failing(i) == CheckFails(i, a, c)
        sel == SelectSeq(<<1, 2, 3, 4>>, Failing)
    IN  [j \in 1..Len(sel) |-> ReasonOf[sel[j]]]

\* what validate_transaction_record answers now for amount a in category c
Validation(a, c) ==
    validate_transaction_record(tx_manager, account, Transaction(a, c),
                                budget_dict[category_mapping[c]])

\* the last operation was a record_transaction that validation refused
LastRejected ==
    last.op = "record_transaction" /\ last.outcome = "rejected"

\* the last operation was a record_transaction that ran to its end
LastRecorded ==
    last.op = "record_transaction" /\ last.outcome = "recorded"

Range(seq) == {seq[i] : i \in DOMAIN seq}

-----------------------------------------------------------------------------
(* C1: validate_transaction_record evaluates its four checks independently: *)
(* for every amount and category, in every reachable state, the reasons     *)
(* returned are exactly one per failing check, in the fixed order, and the  *)
(* transaction is validated iff no check fails; a refused record_transaction *)
(* (which leaves the objects as they were) has printed exactly these.       *)
C1_AllChecksIndependent ==
    [](/\ \A a \in ProposedAmounts, c \in AllCategories :
             LET res      == Validation(a, c)
                 expected == ExpectedReasons(a, c)
             IN  /\ res.error_msg = expected
                 /\ res.validated_tx <=> (\A i \in 1..4 : ~CheckFails(i, a, c))
       /\ LastRejected
             => last.error_msg = ExpectedReasons(last.tx_amount,
                                                 last.budget_category))

\* a record_transaction refused for all four reasons at once
C1_Witness ==
    LastRejected /\ last.error_msg = ReasonOf

-----------------------------------------------------------------------------
(* C2: a refused transaction changes nothing: a record_transaction step for *)
(* an amount and category that validation rejects leaves every budget, the  *)
(* account, the ledger and the next transaction number as they were.        *)
C2_RejectedChangesNothing ==
    [][(/\ last'.op = "record_transaction"
        /\ ~Validation(last'.tx_amount, last'.budget_category).validated_tx)
       => UNCHANGED <<budget_dict, account, transaction_records,
                      current_tx_number>>]_vars

\* the scenario of the specification: refused for the bank balance alone,
\* after a transaction was recorded
C2_Witness ==
    /\ LastRejected
    /\ last.error_msg = <<InsufficientBalanceMsg>>
    /\ transaction_records # <<>>

-----------------------------------------------------------------------------
(* Locks: what the specification says of update_lock_status *)

\* the lock threshold is set, and spent / total is above it (total > 0)
AboveLockThreshold(budget) ==
    LET L == tx_manager.lock_threshold
    IN  /\ ~L.none
        /\ budget.amount_total > 0
        /\ budget.amount_spent * L.den > L.num * budget.amount_total

\* the lock threshold is set, and spent / total is exactly it (total > 0)
AtLockThreshold(budget) ==
    LET L == tx_manager.lock_threshold
    IN  /\ ~L.none
        /\ budget.amount_total > 0
        /\ budget.amount_spent * L.den = L.num * budget.amount_total

NumLocked == Cardinality({k \in BudgetCategory : budget_dict[k].locked_status})

\* update_lock_status has run to its end: no exception, and every budget
\* above the threshold is locked
LocksEvaluated ==
    /\ ~crashed
    /\ \A k \in BudgetCategory :
          AboveLockThreshold(budget_dict[k]) => budget_dict[k].locked_status

\* the last operation ran update_lock_status and it returned
LastUpdatedLocks ==
    \/ LastRecorded
    \/ last.op = "update_lock_status" /\ last.outcome = "returned"

-----------------------------------------------------------------------------
(* C3: recording is all or nothing: a record_transaction step either leaves *)
(* budgets, account, ledger and next number as they were, or it has added   *)
(* the amount to the budget's amount_spent, taken it from the balance,      *)
(* appended the transaction to the ledger and re-evaluated the locks to the *)
(* end.  The code breaks this when a budget's total is 0: the division in   *)
(* update_lock_status raises after the three other effects.                 *)
C3_AllOrNothing ==
    [][last'.op = "record_transaction"
       => LET a == last'.tx_amount
              c == last'.budget_category
              k == category_mapping[c]
          IN  \/ UNCHANGED <<budget_dict, account, transaction_records,
                             current_tx_number>>
              \/ /\ budget_dict'[k].amount_spent
                      = budget_dict[k].amount_spent + a
                 /\ account'.current_balance = account.current_balance - a
                 /\ DOMAIN transaction_records'
                      = DOMAIN transaction_records \cup {current_tx_number}
                 /\ transaction_records'[current_tx_number]
                      = Transaction(a, c)
                 /\ LocksEvaluated']_vars

-----------------------------------------------------------------------------
(* C4: locks are monotonic: in every step (a record_transaction, with its   *)
(* validation and its warnings, or an update_lock_status) a locked budget   *)
(* stays locked and a locked account stays locked.                          *)
C4_LocksMonotonic ==
    [][/\ \A k \in BudgetCategory :
            budget_dict[k].locked_status => budget_dict'[k].locked_status
       /\ account.locked_status => account'.locked_status]_vars

\* update_lock_status has run again on a locked account with locked budgets
C4_Witness ==
    /\ account.locked_status
    /\ NumLocked >= 2
    /\ last.op = "update_lock_status"

-----------------------------------------------------------------------------
(* C5: the account lock is terminal: once the account is locked, validation *)
(* refuses every amount in every category, with the account-locked reason   *)
(* first, and no step changes a budget, the account or the ledger; every    *)
(* record_transaction step from then on is refused with that reason.        *)
C5_AccountLockTerminal ==
    [][account.locked_status
       => /\ \A a \in ProposedAmounts, c \in AllCategories :
                /\ ~Validation(a, c).validated_tx
                /\ Validation(a, c).error_msg # <<>>
                /\ Head(Validation(a, c).error_msg) = AccountLockedMsg
          /\ UNCHANGED <<budget_dict, account, transaction_records,
                         current_tx_number>>
          /\ last'.op = "record_transaction"
                => /\ last'.outcome = "rejected"
                   /\ AccountLockedMsg \in Range(last'.error_msg)]_vars

\* an amount of 0 refused on a locked account
C5_Witness ==
    /\ account.locked_status
    /\ LastRejected
    /\ last.tx_amount = 0
    /\ AccountLockedMsg \in Range(last.error_msg)

-----------------------------------------------------------------------------
(* C6: a transaction on a locked budget is refused with the budget-locked   *)
(* reason whatever its amount (0 included); a transaction on a budget that  *)
(* is not locked never gets that reason, whichever other budgets are locked. *)
C6_LockedBudgetRejects ==
    /\ \A a \in ProposedAmounts, c \in AllCategories :
          LET res    == Validation(a, c)
              locked == budget_dict[category_mapping[c]].locked_status
          IN  /\ locked => ~res.validated_tx
              /\ locked <=> BudgetLockedMsg \in Range(res.error_msg)
    /\ LastRejected
          => (BudgetLockedMsg \in Range(last.error_msg)
                <=> budget_dict[category_mapping[last.budget_category]]
                        .locked_status)

\* an amount of 0 refused for the budget's lock alone, while another budget
\* is not locked
C6_Witness ==
    /\ LastRejected
    /\ last.tx_amount = 0
    /\ last.error_msg = <<BudgetLockedMsg>>
    /\ \E c \in TxCategories : ~budget_dict[category_mapping[c]].locked_status

-----------------------------------------------------------------------------
(* C7: the third check is a fixed ceiling on the budget's total: the        *)
(* exceeds-allowable-budget reason is given exactly when the lock threshold *)
(* is set and amount > amount_total * lock_threshold; the answer is the     *)
(* same whatever the budget's amount_spent, and it is never given when the  *)
(* threshold is absent (Angel).                                             *)
SpentProbes == {0, 5, 6, 12}

AboveCeiling(a, c) ==
    LET L == tx_manager.lock_threshold
    IN  /\ ~L.none
        /\ a * L.den > budget_dict[category_mapping[c]].amount_total * L.num

C7_TotalBasedCeiling ==
    [](/\ \A a \in ProposedAmounts, c \in AllCategories :
             LET budget == budget_dict[category_mapping[c]]
                 given  == ExceededBudgetMsg
                              \in Range(Validation(a, c).error_msg)
             IN  /\ given <=> AboveCeiling(a, c)
                 /\ \A x \in SpentProbes :
                       given <=>
                         ExceededBudgetMsg \in Range(
                           validate_transaction_record(
                               tx_manager, account, Transaction(a, c),
                               [budget EXCEPT !.amount_spent = x]).error_msg)
       /\ LastRejected
             => (ExceededBudgetMsg \in Range(last.error_msg)
                   <=> AboveCeiling(last.tx_amount, last.budget_category))
       /\ tx_manager.lock_threshold.none
             => ~(LastRejected /\ ExceededBudgetMsg \in Range(last.error_msg)))

\* refused for the ceiling alone, on a budget that already has spending
C7_Witness ==
    /\ LastRejected
    /\ last.error_msg = <<ExceededBudgetMsg>>
    /\ budget_dict[category_mapping[last.budget_category]].amount_spent > 0

-----------------------------------------------------------------------------
(* C8: the insufficient-balance reason is given exactly when the amount is  *)
(* strictly greater than the account's current balance; an amount equal to  *)
(* the balance passes this check (and a recorded transaction therefore      *)
(* leaves a balance of at least 0).                                         *)
C8_InsufficientBalance ==
    /\ \A a \in ProposedAmounts, c \in AllCategories :
          InsufficientBalanceMsg \in Range(Validation(a, c).error_msg)
             <=> a > account.current_balance
    /\ \A c \in AllCategories :
          account.current_balance >= 0
             => InsufficientBalanceMsg
                   \notin Range(validate_transaction_record(
                                    tx_manager, account,
                                    Transaction(account.current_balance, c),
                                    budget_dict[category_mapping[c]]).error_msg)
    /\ LastRejected
          => (InsufficientBalanceMsg \in Range(last.error_msg)
                <=> last.tx_amount > account.current_balance)
    /\ LastRecorded => account.current_balance >= 0

\* a transaction of the whole balance was recorded
C8_Witness ==
    /\ LastRecorded
    /\ last.tx_amount > 0
    /\ account.current_balance = 0

-----------------------------------------------------------------------------
(* C9: after update_lock_status returns (in record_transaction or on its    *)
(* own), every budget whose amount_spent / amount_total is strictly above   *)
(* the lock threshold is locked, whichever category the transaction was in, *)
(* and a budget whose ratio is exactly the threshold is not locked.         *)
C9_LockedAboveThreshold ==
    LastUpdatedLocks
       => \A k \in BudgetCategory :
             /\ AboveLockThreshold(budget_dict[k])
                   => budget_dict[k].locked_status
             /\ AtLockThreshold(budget_dict[k])
                   => ~budget_dict[k].locked_status

\* after a recorded transaction: a locked budget of another category, and a
\* budget exactly at the threshold that is not locked
C9_Witness ==
    /\ LastRecorded
    /\ \E k \in BudgetCategory :
          /\ k # category_mapping[last.budget_category]
          /\ AboveLockThreshold(budget_dict[k])
          /\ budget_dict[k].locked_status
    /\ \E k \in BudgetCategory :
          AtLockThreshold(budget_dict[k]) /\ ~budget_dict[k].locked_status

-----------------------------------------------------------------------------
(* C10: under the Rebel policy (max_locked_budgets = 2), whenever           *)
(* update_lock_status returns with at least 2 budgets locked (those locked  *)
(* by earlier calls included), the account is locked and the account-locked *)
(* warning was printed by that same call.                                   *)
C10_AccountLockedAtMax ==
    (/\ tx_manager.user_type = 3
     /\ LastUpdatedLocks
     /\ NumLocked >= 2)
       => /\ account.locked_status
          /\ issue_locked_warning \in Range(last.signals)

\* the recorded transaction that locks the second budget
C10_Witness ==
    /\ tx_manager.user_type = 3
    /\ LastRecorded
    /\ NumLocked = 2
    /\ account.locked_status
    /\ issue_locked_warning \in Range(last.signals)

-----------------------------------------------------------------------------
(* C11: a budget with amount_total = 0 raises no division fault: no         *)
(* operation ends in a ZeroDivisionError, under any policy, and a budget    *)
(* whose total is 0 is never locked.  The code divides amount_spent by      *)
(* amount_total without a guard in update_lock_status (and again in         *)
(* check_and_issue_user_warnings), so the first call with a zero total      *)
(* raises.                                                                  *)
ZeroTotal(budget) == budget.amount_total = 0

C11_ZeroTotalNoFault ==
    /\ last.outcome # "ZeroDivisionError"
    /\ ~crashed
    /\ \A k \in BudgetCategory :
          ZeroTotal(budget_dict[k]) => ~budget_dict[k].locked_status

-----------------------------------------------------------------------------
(* The ledger *)

\* the number of entries of the ledger
NumRecorded == Cardinality(DOMAIN transaction_records)

\* the last record_transaction passed validation (whether or not it then ran
\* to its end)
LastAccepted ==
    last.op = "record_transaction" /\ last.outcome # "rejected"

-----------------------------------------------------------------------------
(* C12: the ledger's keys are always exactly 1..n, n the number of its      *)
(* entries, and the next number is n + 1.  A record_transaction step that   *)
(* validation accepts adds the transaction under the key n + 1 (1 for the   *)
(* first) and leaves every earlier entry under its key; a refused one, and  *)
(* every other operation, leaves the ledger and the next number as they     *)
(* were.                                                                    *)
C12_LedgerNumbering ==
    /\ [](/\ DOMAIN transaction_records = 1..NumRecorded
          /\ current_tx_number = NumRecorded + 1)
    /\ [][IF LastAccepted'
          THEN /\ DOMAIN transaction_records'
                    = DOMAIN transaction_records \cup {NumRecorded + 1}
               /\ NumRecorded' = NumRecorded + 1
               /\ transaction_records'[NumRecorded + 1]
                    = Transaction(last'.tx_amount, last'.budget_category)
               /\ \A k \in DOMAIN transaction_records :
                     transaction_records'[k] = transaction_records[k]
          ELSE UNCHANGED <<transaction_records, current_tx_number>>]_vars

\* a transaction refused after two were recorded: the next number is still 3
C12_Witness ==
    /\ LastRejected
    /\ DOMAIN transaction_records = {1, 2}
    /\ current_tx_number = 3

-----------------------------------------------------------------------------
(* C13: calc_total_spent() is the sum of tx_amount over all ledger entries: *)
(* in every reachable state it equals the sum taken entry by entry in any   *)
(* order, and the sum of the per-category sums; it is 0 for an empty        *)
(* ledger; each accepted transaction adds its amount to it and no other     *)
(* operation changes the ledger; it is the total view_bank_account_details  *)
(* prints.                                                                  *)

\* the sum of tx_amount over the entries with keys in K, in no fixed order
RECURSIVE SumOfEntries(_)
SumOfEntries(K) ==
    IF K = {}
    THEN 0
    ELSE LET k == CHOOSE x \in K : TRUE
         IN  transaction_records[k].tx_amount + SumOfEntries(K \ {k})

\* the keys of the entries recorded in category c
EntriesOf(c) ==
    {k \in DOMAIN transaction_records :
        transaction_records[k].budget_category = c}

RECURSIVE SumOverCategories(_)
SumOverCategories(C) ==
    IF C = {}
    THEN 0
    ELSE LET c == CHOOSE x \in C : TRUE
         IN  SumOfEntries(EntriesOf(c)) + SumOverCategories(C \ {c})

C13_TotalSpentIsSum ==
    /\ [](LET total == calc_total_spent(transaction_records)
          IN  /\ total = SumOfEntries(DOMAIN transaction_records)
              /\ total = SumOverCategories(AllCategories)
              /\ transaction_records = <<>> => total = 0
              /\ last.op = "view_bank_account_details"
                    => last.signals[1].total_spent = total)
    /\ [][IF LastAccepted'
          THEN calc_total_spent(transaction_records')
                 = calc_total_spent(transaction_records) + last'.tx_amount
          ELSE UNCHANGED transaction_records]_vars

\* the total printed for a ledger of three entries, of both categories and of
\* different amounts
C13_Witness ==
    /\ last.op = "view_bank_account_details"
    /\ NumRecorded = 3
    /\ \A c \in TxCategories : EntriesOf(c) # {}
    /\ \E j, k \in DOMAIN transaction_records :
          transaction_records[j].tx_amount # transaction_records[k].tx_amount
    /\ last.signals[1].total_spent = 16

-----------------------------------------------------------------------------
(* C14: a record_transaction step that validation accepts, for amount a in  *)
(* category c, adds exactly a to the amount_spent of the budget of c (and   *)
(* to no other budget), takes exactly a from current_balance and appends    *)
(* exactly one ledger entry holding the transaction, also when the lock     *)
(* re-evaluation that follows raises.  When the operation runs to its end,  *)
(* the locks were re-evaluated on the amounts after the transaction (every  *)
(* budget now above the lock threshold is locked, the transacted one        *)
(* included), and the warnings were issued after that: the locked-status    *)
(* signal is printed exactly when the transacted budget is locked after the *)
(* re-evaluation, and the account-locked warning of the re-evaluation comes *)
(* before every signal of the warnings.                                     *)

\* the kinds of signal check_and_issue_user_warnings prints
WarningKinds == {"warning", "notification", "locked_status"}

C14_AcceptedEffectsInOrder ==
    [][LastAccepted'
       => LET a == last'.tx_amount
              c == last'.budget_category
              k == category_mapping[c]
              printed == last'.signals
          IN  /\ budget_dict'[k].amount_spent
                   = budget_dict[k].amount_spent + a
              /\ \A j \in BudgetCategory :
                    /\ j # k => budget_dict'[j].amount_spent
                                  = budget_dict[j].amount_spent
                    /\ budget_dict'[j].amount_total
                          = budget_dict[j].amount_total
              /\ account'.current_balance = account.current_balance - a
              /\ DOMAIN transaction_records'
                   = DOMAIN transaction_records \cup {current_tx_number}
              /\ current_tx_number \notin DOMAIN transaction_records
              /\ transaction_records'[current_tx_number] = Transaction(a, c)
              /\ LastRecorded'
                    => /\ \A j \in BudgetCategory :
                             budget_dict'[j].locked_status
                                <=> \/ budget_dict[j].locked_status
                                    \/ AboveLockThreshold(budget_dict'[j])
                       /\ issue_locked_status(k) \in Range(printed)
                             <=> budget_dict'[k].locked_status
                       /\ \A m, n \in DOMAIN printed :
                             (/\ printed[m] = issue_locked_warning
                              /\ printed[n].kind \in WarningKinds)
                                => m < n]_vars

\* the transaction that takes a budget above the lock threshold and with it
\* the account to its lock: the account-locked warning, then the signals of
\* the warnings, the locked status among them
C14_Witness ==
    /\ LastRecorded
    /\ last.tx_amount > 0
    /\ Len(last.signals) >= 3
    /\ last.signals[1] = issue_locked_warning
    /\ issue_locked_status(category_mapping[last.budget_category])
          \in Range(last.signals)
    /\ account.current_balance < account.starting_balance

-----------------------------------------------------------------------------
(* Warnings: what the specification says of check_and_issue_user_warnings,  *)
(* which record_transaction runs on the budget of the recorded transaction  *)

\* the budget of the last transaction
LastBudget == budget_dict[category_mapping[last.budget_category]]

\* spent / total is strictly above the warning threshold (total > 0)
AboveWarningThreshold(budget) ==
    LET W == tx_manager.warning_threshold
    IN  /\ budget.amount_total > 0
        /\ budget.amount_spent * W.den > W.num * budget.amount_total

\* some signal of this kind was printed by the last operation
Printed(kind) == \E i \in DOMAIN last.signals : last.signals[i].kind = kind

-----------------------------------------------------------------------------
(* C15: a warning is printed only for a reason: whenever a recorded         *)
(* transaction's warnings include a warning signal, the transacted budget's *)
(* amount_spent / amount_total is above the warning threshold, or that      *)
(* budget is locked, or the policy's warning is persistent and some         *)
(* budget's ratio is above the threshold.  The code tests the truth value   *)
(* of current_budget_threshold / warning_threshold, so it warns whenever    *)
(* the transacted budget has any spending at all.                           *)
C15_WarningOnlyForReason ==
    (LastRecorded /\ Printed("warning"))
       => \/ AboveWarningThreshold(LastBudget)
          \/ LastBudget.locked_status
          \/ /\ tx_manager.persistent_warning
             /\ \E k \in BudgetCategory :
                   AboveWarningThreshold(budget_dict[k])

-----------------------------------------------------------------------------
(* C16: a warning is printed whenever there is a reason in the transacted   *)
(* budget: when a recorded transaction leaves its budget with               *)
(* amount_spent / amount_total strictly above the warning threshold, or     *)
(* locked, its warnings include the warning signal for that budget's        *)
(* category; and in every reachable state check_and_issue_user_warnings,    *)
(* run on any budget that is above the threshold or locked, prints it.      *)
C16_WarningWhenAboveOrLocked ==
    /\ (/\ LastRecorded
        /\ AboveWarningThreshold(LastBudget) \/ LastBudget.locked_status)
          => issue_warning(tx_manager, category_mapping[last.budget_category])
                \in Range(last.signals)
    /\ \A k \in BudgetCategory :
          LET r == check_and_issue_user_warnings(tx_manager, budget_dict, k)
          IN  (/\ ~r.raised
               /\ \/ AboveWarningThreshold(budget_dict[k])
                  \/ budget_dict[k].locked_status)
                 => issue_warning(tx_manager, k) \in Range(r.signals)

\* the scenario of the specification: an Angel's budget above 0.9 of its
\* total and not above it, not locked, and the warning for it
C16_Witness ==
    /\ tx_manager.user_type = 1
    /\ LastRecorded
    /\ AboveWarningThreshold(LastBudget)
    /\ LastBudget.amount_spent <= LastBudget.amount_total
    /\ ~LastBudget.locked_status
    /\ last.signals
          = <<issue_warning(tx_manager,
                            category_mapping[last.budget_category])>>

-----------------------------------------------------------------------------
(* C17: persistent_warning decides whether the other budgets count.  With   *)
(* it set (Rebel), a recorded transaction prints the warning whenever some  *)
(* budget's ratio is above the warning threshold, also when the transacted  *)
(* budget's is not.  With it not set (Angel, Troublemaker), whether         *)
(* check_and_issue_user_warnings prints the warning for a budget is the     *)
(* same whatever the amount_spent of any other budget.                      *)

\* amounts spent to put in another budget: none, and up to above every
\* warning threshold of a total of 20
OtherSpentProbes == {0, 6, 12, 24}

\* check_and_issue_user_warnings on budget k prints the warning, in budgets bd
WarnsFor(bd, k) ==
    issue_warning(tx_manager, k)
       \in Range(check_and_issue_user_warnings(tx_manager, bd, k).signals)

C17_PersistentDecidesScope ==
    /\ (/\ LastRecorded
        /\ tx_manager.persistent_warning
        /\ \E k \in BudgetCategory : AboveWarningThreshold(budget_dict[k]))
          => issue_warning(tx_manager, category_mapping[last.budget_category])
                \in Range(last.signals)
    /\ ~tx_manager.persistent_warning
          => \A k, j \in BudgetCategory, x \in OtherSpentProbes :
                j # k
                   => (WarnsFor(budget_dict, k)
                         <=> WarnsFor([budget_dict EXCEPT
                                          ![j].amount_spent = x], k))

\* a Rebel's transaction of amount 0 on a budget without spending prints the
\* warning, for another budget that is above the threshold
C17_Witness ==
    /\ tx_manager.persistent_warning
    /\ LastRecorded
    /\ LastBudget.amount_spent = 0
    /\ ~LastBudget.locked_status
    /\ \E k \in BudgetCategory : AboveWarningThreshold(budget_dict[k])
    /\ last.signals
          = <<issue_warning(tx_manager,
                            category_mapping[last.budget_category])>>

-----------------------------------------------------------------------------
-----------------------------------------------------------------------------
(* C19: the locked-status signal follows the budget's locked flag: a        *)
(* recorded transaction's signals include the locked status of its budget's *)
(* category iff that budget is locked, and check_and_issue_user_warnings run *)
(* on any budget in any reachable state prints it iff the budget is locked. *)
(* Because the locks are re-evaluated before the warnings, the accepted     *)
(* transaction that takes a budget that was not locked above the lock       *)
(* threshold runs to its end and prints the locked status in that same      *)
(* operation.                                                               *)
C19_LockedStatusFollowsFlag ==
    /\ [](/\ LastRecorded
                => (issue_locked_status(
                        category_mapping[last.budget_category])
                       \in Range(last.signals)
                     <=> LastBudget.locked_status)
          /\ \A k \in BudgetCategory :
                LET r == check_and_issue_user_warnings(tx_manager,
                                                       budget_dict, k)
                IN  ~r.raised
                       => (issue_locked_status(k) \in Range(r.signals)
                             <=> budget_dict[k].locked_status))
    /\ [][LastAccepted'
          => LET k == category_mapping[last'.budget_category]
             IN  (/\ ~budget_dict[k].locked_status
                  /\ AboveLockThreshold(budget_dict'[k]))
                    => /\ LastRecorded'
                       /\ budget_dict'[k].locked_status
                       /\ issue_locked_status(k)
                             \in Range(last'.signals)]_vars

\* the transaction that takes its budget from not above the lock threshold
\* to above it, the account staying open: the budget is locked and its
\* locked status printed
C19_Witness ==
    /\ LastRecorded
    /\ ~account.locked_status
    /\ AboveLockThreshold(LastBudget)
    /\ ~AboveLockThreshold(
          [LastBudget EXCEPT !.amount_spent = @ - last.tx_amount])
    /\ LastBudget.locked_status
    /\ last.signals[Len(last.signals)]
          = issue_locked_status(category_mapping[last.budget_category])

-----------------------------------------------------------------------------
(* C20: under the Angel policy (no lock threshold, no maximum of locked     *)
(* budgets) no budget and not the account is locked in any reachable state, *)
(* however far the spending is above the budget totals, and no transaction  *)
(* is refused for a lock.                                                   *)
C20_AngelNeverLocks ==
    tx_manager.user_type = 1
       => /\ \A k \in BudgetCategory : ~budget_dict[k].locked_status
          /\ ~account.locked_status
          /\ ~Printed("locked_status")
          /\ ~Printed("account_locked_warning")
          /\ LastRejected => last.error_msg = <<InsufficientBalanceMsg>>

\* an Angel's budget spent to four times its total, after update_lock_status
\* ran
C20_Witness ==
    /\ tx_manager.user_type = 1
    /\ LastRecorded
    /\ LastBudget.amount_total > 0
    /\ LastBudget.amount_spent >= 4 * LastBudget.amount_total
    /\ ~LastBudget.locked_status
    /\ ~account.locked_status

-----------------------------------------------------------------------------
(* C21: update_lock_status is idempotent on the state.  A call of it that   *)
(* follows a call that returned (the one record_transaction made for a      *)
(* recorded transaction, or one made on its own), with no transaction in    *)
(* between, changes no budget, not the account and not the ledger; and in   *)
(* every reachable state, update_lock_status applied to what                *)
(* update_lock_status leaves gives the same budgets and account, and raises *)
(* iff the first call did.                                                  *)
C21_UpdateLocksIdempotent ==
    /\ [](LET first  == update_lock_status(tx_manager, budget_dict, account)
              second == update_lock_status(tx_manager, first.budget_dict,
                                           first.account)
          IN  /\ second.budget_dict = first.budget_dict
              /\ second.account = first.account
              /\ second.raised = first.raised)
    /\ [][(LastUpdatedLocks /\ last'.op = "update_lock_status")
            => UNCHANGED <<budget_dict, account, transaction_records,
                           current_tx_number>>]_vars

\* update_lock_status has run again after the transaction that locked a
\* first budget
C21_Witness ==
    /\ last.op = "update_lock_status"
    /\ last.outcome = "returned"
    /\ NumLocked = 1
    /\ ~account.locked_status
    /\ last.signals = <<>>

-----------------------------------------------------------------------------
(* C22: a user type code outside 1..3 aborts the construction:              *)
(* generate_new_user never returns a User whose transaction manager is      *)
(* missing, and no later operation fails for a missing manager.  The code   *)
(* leaves tx_mgr None in generate_tx_mgr, returns it, and generate_new_user *)
(* builds and returns the User around it.                                   *)
C22_NoUserWithoutManager ==
    /\ (last.op = "generate_new_user" /\ last.outcome = "returned")
          => tx_manager # None
    /\ last.outcome # "AttributeError"

-----------------------------------------------------------------------------
(* C23: the severity of a notification is decided by the policy alone:      *)
(* every notification an operation prints is emphasized under the Rebel     *)
(* policy and normal under the Angel and Troublemaker policies, whatever    *)
(* the budget and the amounts; the same holds of the notification           *)
(* check_and_issue_user_warnings prints for any budget once it is overspent. *)

\* the severity the specification gives the policy's notifications
SeverityOf(mgr) == IF mgr = RebelTransactionManager
                   THEN "emphasized" ELSE "normal"

\* budget k of the current budgets, overspent by one unit
Overspent(k) ==
    [budget_dict EXCEPT ![k].amount_spent = budget_dict[k].amount_total + 1]

C23_SeverityByPolicy ==
    /\ \A i \in DOMAIN last.signals :
          last.signals[i].kind = "notification"
             => last.signals[i].severity = SeverityOf(tx_manager)
    /\ \A k \in BudgetCategory :
          LET r == check_and_issue_user_warnings(tx_manager, Overspent(k), k)
          IN  ~r.raised
                 => /\ \E i \in DOMAIN r.signals :
                          r.signals[i].kind = "notification"
                    /\ \A i \in DOMAIN r.signals :
                          r.signals[i].kind = "notification"
                             => r.signals[i].severity = SeverityOf(tx_manager)

\* a Rebel's recorded transaction that prints the emphasized notification
C23_Witness ==
    /\ tx_manager = RebelTransactionManager
    /\ LastRecorded
    /\ \E i \in DOMAIN last.signals :
          /\ last.signals[i].kind = "notification"
          /\ last.signals[i].severity = "emphasized"

-----------------------------------------------------------------------------
(* C24: conservation of money: in every reachable state (each is a state    *)
(* between operations) starting_balance - current_balance equals            *)
(* calc_total_spent(), which equals the sum of amount_spent over the four   *)
(* budgets; the state a division fault leaves is no exception, since the    *)
(* three amounts are applied before update_lock_status runs.                *)

\* the sum of amount_spent over the four budgets
TotalBudgetSpent ==
    budget_dict["GAMES_AND_ENTERTAINMENT"].amount_spent
      + budget_dict["CLOTHING_AND_ACCESSORIES"].amount_spent
      + budget_dict["EATING_OUT"].amount_spent
      + budget_dict["MISCELLANEOUS"].amount_spent

C24_MoneyConserved ==
    [](LET total == calc_total_spent(transaction_records)
       IN  /\ account.starting_balance - account.current_balance = total
           /\ total = TotalBudgetSpent)

\* four transactions of 22 units in all, in two budgets, and a fifth refused
C24_Witness ==
    /\ LastRejected
    /\ NumRecorded = 4
    /\ TotalBudgetSpent = 22
    /\ \A c \in TxCategories :
          budget_dict[category_mapping[c]].amount_spent > 0
    /\ account.starting_balance - account.current_balance = 22

-----------------------------------------------------------------------------
(* C25: in every reachable state (each is a state between operations) a     *)
(* budget is locked only if its amount_spent / amount_total is strictly     *)
(* above the policy's lock threshold, and a budget with a positive total is *)
(* locked exactly when its ratio is above the threshold: a budget exactly   *)
(* at the threshold is not locked, and none is left above it unlocked.      *)
C25_LockedIffAboveThreshold ==
    \A k \in BudgetCategory :
        /\ budget_dict[k].locked_status => AboveLockThreshold(budget_dict[k])
        /\ budget_dict[k].amount_total > 0
              => (budget_dict[k].locked_status
                    <=> AboveLockThreshold(budget_dict[k]))
        /\ AtLockThreshold(budget_dict[k]) => ~budget_dict[k].locked_status

\* between operations: one budget above the threshold and locked, another
\* exactly at it and not locked
C25_Witness ==
    /\ last.op = "view_bank_account_details"
    /\ \E k \in BudgetCategory :
          AboveLockThreshold(budget_dict[k]) /\ budget_dict[k].locked_status
    /\ \E k \in BudgetCategory :
          AtLockThreshold(budget_dict[k]) /\ ~budget_dict[k].locked_status

-----------------------------------------------------------------------------
(* Overspending under a policy with a lock threshold L (Troublemaker 1.2,   *)
(* Rebel 1) *)

\* budget k is within the bound: amount_spent <= 2 * L * amount_total, and
\* amount_spent <= L * amount_total while it is not locked
WithinOverspendBound(k) ==
    LET L      == tx_manager.lock_threshold
        budget == budget_dict[k]
    IN  /\ budget.amount_spent * L.den <= 2 * L.num * budget.amount_total
        /\ ~budget.locked_status
              => budget.amount_spent * L.den <= L.num * budget.amount_total

\* every recorded transaction's amount is at most L * amount_total of its
\* budget
AmountsWithinCeiling ==
    LET L == tx_manager.lock_threshold
    IN  \A n \in DOMAIN transaction_records :
           LET tx == transaction_records[n]
           IN  tx.tx_amount * L.den
                  <= L.num * budget_dict[category_mapping[
                                 tx.budget_category]].amount_total

\* the user has a manager, and it has a lock threshold
HasLockThreshold == tx_manager # None /\ ~tx_manager.lock_threshold.none

(* C26 as claimed: under a policy with a lock threshold, in every reachable *)
(* state every budget has amount_spent <= 2 * L * amount_total, an unlocked *)
(* budget amount_spent <= L * amount_total, and every recorded amount is at *)
(* most L * amount_total.  It fails for a budget registered with a negative *)
(* total, whose amount_spent of 0 is above the negative bound.              *)
C26_OverspendBounded ==
    HasLockThreshold
       => /\ \A k \in BudgetCategory : WithinOverspendBound(k)
          /\ AmountsWithinCeiling

(* C26 as amended: under a policy with a lock threshold, in every reachable *)
(* state every budget whose amount_total is not negative has amount_spent   *)
(* <= 2 * L * amount_total, and amount_spent <= L * amount_total while it   *)
(* is not locked; every recorded amount is at most L * amount_total of its  *)
(* budget.                                                                  *)
C26_OverspendBoundedNonNegative ==
    HasLockThreshold
       => /\ \A k \in BudgetCategory :
                budget_dict[k].amount_total >= 0 => WithinOverspendBound(k)
          /\ AmountsWithinCeiling

\* a Troublemaker's budget spent to exactly twice 1.2 times its total
C26_Witness ==
    /\ tx_manager = TroublemakerTransactionManager
    /\ \E k \in BudgetCategory :
          /\ budget_dict[k].amount_total > 0
          /\ budget_dict[k].amount_spent * 5
                = 2 * 6 * budget_dict[k].amount_total
          /\ budget_dict[k].locked_status

-----------------------------------------------------------------------------
(* C27: under the Rebel policy at most 2 budgets are ever locked, and       *)
(* between operations the account is locked exactly when at least 2 budgets *)
(* are locked.                                                              *)
C27_RebelAtMostTwoLocked ==
    tx_manager.user_type = 3
       => /\ NumLocked <= 2
          /\ account.locked_status <=> NumLocked >= 2

\* a Rebel with two budgets locked and the account locked, refused a
\* transaction in a third budget that is spent to its total and not locked
C27_Witness ==
    /\ tx_manager.user_type = 3
    /\ NumLocked = 2
    /\ account.locked_status
    /\ LastRejected
    /\ AccountLockedMsg \in Range(last.error_msg)
    /\ ~LastBudget.locked_status
    /\ AtLockThreshold(LastBudget)

-----------------------------------------------------------------------------
(* C28: with a starting balance and transaction amounts of at least 0, the  *)
(* account's current_balance is at least 0 in every reachable state: the    *)
(* balance changes only by a record_transaction that validation accepted,   *)
(* and the accepted amount is never above the balance it is taken from.     *)
C28_BalanceNeverNegative ==
    /\ [](account.current_balance >= 0)
    /\ [][account'.current_balance # account.current_balance
             => /\ LastAccepted'
                /\ last'.tx_amount <= account.current_balance
                /\ account'.current_balance
                      = account.current_balance - last'.tx_amount]_vars

\* after recorded transactions, an amount above what is left of the balance
\* is refused for the balance alone
C28_Witness ==
    /\ LastRejected
    /\ last.error_msg = <<InsufficientBalanceMsg>>
    /\ NumRecorded >= 3
    /\ account.current_balance > 0
    /\ account.current_balance < last.tx_amount

-----------------------------------------------------------------------------
(* C29: a record_transaction that validation accepts in category c leaves   *)
(* the budget of every other category as it was: amount_spent, amount_total *)
(* and locked_status are the same after the step as before it, although     *)
(* update_lock_status goes through all budgets.                             *)
C29_OtherBudgetsUnchanged ==
    [][LastAccepted'
          => \A j \in BudgetCategory \ {category_mapping[last'.budget_category]} :
                budget_dict'[j] = budget_dict[j]]_vars

\* the recorded transaction locked its own budget, and another budget that
\* has spending is still not locked
C29_Witness ==
    /\ LastRecorded
    /\ Printed("locked_status")
    /\ LastBudget.locked_status
    /\ \E j \in BudgetCategory \ {category_mapping[last.budget_category]} :
          /\ budget_dict[j].amount_spent > 0
          /\ ~budget_dict[j].locked_status

-----------------------------------------------------------------------------
(* C30: under the Troublemaker policy every budget whose ratio is above 1.2 *)
(* is locked once update_lock_status has run, and the account is never      *)
(* locked: no account-locked warning is printed and no transaction is       *)
(* refused for a locked account, even with all four budgets locked.         *)
C30_TroublemakerAccountNeverLocked ==
    tx_manager.user_type = 2
       => /\ \A k \in BudgetCategory :
                AboveLockThreshold(budget_dict[k])
                   => budget_dict[k].locked_status
          /\ ~account.locked_status
          /\ ~Printed("account_locked_warning")
          /\ LastRejected => AccountLockedMsg \notin Range(last.error_msg)

\* a Troublemaker whose fourth budget has just been locked
C30_Witness ==
    /\ tx_manager.user_type = 2
    /\ LastRecorded
    /\ Printed("locked_status")
    /\ NumLocked = 4
    /\ ~account.locked_status

-----------------------------------------------------------------------------
(* C31: in a session of record_transaction operations the account-locked    *)
(* warning is printed at most once: an operation prints it exactly when it  *)
(* takes account.locked_status from FALSE to TRUE, and then once; the flag  *)
(* is never cleared, and no operation on a locked account, all of them      *)
(* refused, prints it again.                                                *)
C31_AccountWarningOnce ==
    [][LET emitted == Cardinality({i \in DOMAIN last'.signals :
                                      last'.signals[i] = issue_locked_warning})
       IN  /\ emitted <= 1
           /\ emitted = 1
                 <=> (~account.locked_status /\ account'.locked_status)
           /\ account.locked_status
                 => /\ account'.locked_status
                    /\ LastRejected'
                    /\ emitted = 0]_vars

\* a transaction refused on the account locked by the fourth recorded one:
\* nothing is printed but the reasons
C31_Witness ==
    /\ account.locked_status
    /\ NumLocked = 2
    /\ NumRecorded = 4
    /\ LastRejected
    /\ last.tx_amount > 0
    /\ Head(last.error_msg) = AccountLockedMsg
    /\ last.signals = <<>>

====
